---- MODULE Spec2Model ----
(***************************************************************************)
(* A model of dns/edns.py: the EDNS option classes (GenericOption,         *)
(* LLQOption, ULOption), their wire encoding and decoding, their rich      *)
(* comparison methods and the option_from_wire dispatch.                   *)
(*                                                                         *)
(* Representation.  A Python int that is handed to struct.pack is a        *)
(* sequence of base-65536 limbs, most significant first, without leading   *)
(* zero limbs (0 is <<>>, 42 is <<42>>, 65536 is <<1, 0>>): the 32 and 64  *)
(* bit fields of the options exceed the integers TLC computes with.  A     *)
(* byte string is a sequence of 0..255.  An instance is a record whose     *)
(* field cls is its class and whose other fields are its attributes, so    *)
(* that a missing attribute is a name outside DOMAIN.                      *)
(***************************************************************************)
EXTENDS Integers, Sequences, FiniteSets, TLC

VARIABLES
    defaultQueryId,  \* the default of LLQOption.__init__'s queryid argument
    entropyDraws,    \* number of calls of dns.entropy.between so far
    instances,       \* number of option instances the caller has constructed
    opt,             \* the option instance the caller holds (None before any)
    hdr,             \* the option header the message layer parsed: the type
                     \* code, the offset of the option data and its length
    wire,            \* the file / wire buffer of the current message
    mark,            \* where the last to_wire wrote in wire, and how much
    res,             \* the last call and what it returned or raised
    x, y, z          \* the operands of the comparison methods

vars == <<defaultQueryId, entropyDraws, instances, opt, hdr, wire, mark, res, x, y, z>>

-----------------------------------------------------------------------------
(* Module constants *)

LLQ == 1
UL == 2
NSID == 3

LLQ_ERROR_NOERROR == 0
LLQ_ERROR_UNKNOWN == 6
LLQ_OPCODE_SETUP == 1
LLQ_OPCODE_EVENT == 3

\* sizes in bytes of the struct format characters under '!'
H == 2
L == 4
Q == 8

FmtLLQ == <<H, H, H, Q, L>>
FmtUL == <<Q, L>>

-----------------------------------------------------------------------------
(* Bounds *)

MaxInstances == 1 \* option instances constructed in one behaviour
MaxData == 1      \* longest payload of a constructed GenericOption
MaxOlen == 64     \* largest olen passed to from_wire
MaxCurrent == 1   \* largest offset passed to from_wire

-----------------------------------------------------------------------------
(* Python values *)

None == [cls |-> "NoneType"]
NotAnOption == [cls |-> "object"]

Max32 == <<65535, 65535>>
Max64 == <<65535, 65535, 65535, 65535>>

RECURSIVE Strip(_)
Strip(s) == IF s = <<>> THEN <<>>
            ELSE IF Head(s) = 0 THEN Strip(Tail(s)) ELSE s

\* the int i, 0 <= i < 65536, as limbs
Num(i) == Strip(<<i>>)

RECURSIVE Zeros(_)
Zeros(n) == IF n <= 0 THEN <<>> ELSE <<0>> \o Zeros(n - 1)

\* cmp() of two ints
CmpInt(i, j) == IF i < j THEN -1 ELSE IF i > j THEN 1 ELSE 0

\* cmp() of two sequences, element by element, the shorter first on a tie
RECURSIVE CmpSeq(_, _)
CmpSeq(s, t) ==
    IF s = <<>> THEN (IF t = <<>> THEN 0 ELSE -1)
    ELSE IF t = <<>> THEN 1
    ELSE IF Head(s) # Head(t) THEN CmpInt(Head(s), Head(t))
    ELSE CmpSeq(Tail(s), Tail(t))

\* cmp() of two non-negative ints given by their limbs
CmpNum(m, n) == IF Len(m) # Len(n) THEN CmpInt(Len(m), Len(n)) ELSE CmpSeq(m, n)

\* cmp() of two tuples, given the cmp() of their elements in order
RECURSIVE CmpTuple(_)
CmpTuple(cs) == IF cs = <<>> THEN 0
                ELSE IF Head(cs) # 0 THEN Head(cs) ELSE CmpTuple(Tail(cs))

\* s[i:j]
PySlice(s, i, j) ==
    LET n == Len(s)
        Norm(k) == IF k < 0 THEN (IF k + n < 0 THEN 0 ELSE k + n)
                   ELSE IF k > n THEN n ELSE k
        lo == Norm(i)
        hi == Norm(j)
    IN IF lo >= hi THEN <<>> ELSE SubSeq(s, lo + 1, hi)

-----------------------------------------------------------------------------
(* struct.pack and struct.unpack with a '!' format of H, L and Q fields *)

RECURSIVE LimbsToBytes(_)
LimbsToBytes(ls) ==
    IF ls = <<>> THEN <<>>
    ELSE <<Head(ls) \div 256, Head(ls) % 256>> \o LimbsToBytes(Tail(ls))

RECURSIVE BytesToLimbs(_)
BytesToLimbs(bs) ==
    IF bs = <<>> THEN <<>>
    ELSE <<bs[1] * 256 + bs[2]>> \o BytesToLimbs(SubSeq(bs, 3, Len(bs)))

\* does the int fit an unsigned field of size bytes
Fits(n, size) == 2 * Len(n) <= size

PackNum(n, size) == LimbsToBytes(Zeros(size \div 2 - Len(n)) \o n)

UnpackNum(bs) == Strip(BytesToLimbs(bs))

RECURSIVE CalcSize(_)
CalcSize(fmt) == IF fmt = <<>> THEN 0 ELSE Head(fmt) + CalcSize(Tail(fmt))

RECURSIVE PackFields(_, _)
PackFields(fmt, vals) ==
    IF fmt = <<>> THEN <<>>
    ELSE PackNum(Head(vals), Head(fmt)) \o PackFields(Tail(fmt), Tail(vals))

RECURSIVE UnpackFields(_, _)
UnpackFields(fmt, bs) ==
    IF fmt = <<>> THEN <<>>
    ELSE <<UnpackNum(SubSeq(bs, 1, Head(fmt)))>>
         \o UnpackFields(Tail(fmt), SubSeq(bs, Head(fmt) + 1, Len(bs)))

\* struct.pack: struct.error when a value does not fit its field
StructPack(fmt, vals) ==
    IF \A i \in 1..Len(fmt) : Fits(vals[i], fmt[i])
    THEN [exc |-> "none", bytes |-> PackFields(fmt, vals)]
    ELSE [exc |-> "struct.error"]

\* struct.unpack: struct.error unless the string has exactly calcsize bytes
StructUnpack(fmt, bs) ==
    IF Len(bs) = CalcSize(fmt)
    THEN [exc |-> "none", vals |-> UnpackFields(fmt, bs)]
    ELSE [exc |-> "struct.error"]

-----------------------------------------------------------------------------
(* class Option: the rich comparison methods *)

OptionClasses == {"GenericOption", "LLQOption", "ULOption"}

isinstance_Option(o) == o.cls \in OptionClasses

Bool(b) == IF b THEN "True" ELSE "False"

\* what a comparison method hands back: a value returned without calling
\* _cmp, or the outcome of the _cmp call (a value or the exception it raised)
Returned(v) == [ret |-> v, exc |-> "none", cmpCalled |-> FALSE]
OfCmp(r, v) == IF r.exc # "none"
               THEN [ret |-> "raised", exc |-> r.exc, cmpCalled |-> TRUE]
               ELSE [ret |-> v, exc |-> "none", cmpCalled |-> TRUE]

AttributeError == [exc |-> "AttributeError", val |-> 0]
Compared(v) == [exc |-> "none", val |-> v]

GenericOption_cmp(self, other) ==
    IF "data" \notin DOMAIN other THEN AttributeError
    ELSE Compared(CmpSeq(self.data, other.data))

LLQOption_cmp_version_last(self, other) ==
    IF {"version", "opcode", "errorcode", "queryid", "leaselife"}
           \subseteq DOMAIN other
    THEN Compared(CmpTuple(<<CmpInt(self.otype, other.otype),
                             CmpNum(self.opcode, other.opcode),
                             CmpNum(self.errorcode, other.errorcode),
                             CmpNum(self.queryid, other.queryid),
                             CmpNum(self.leaselife, other.leaselife),
                             CmpNum(self.version, other.version)>>))
    ELSE AttributeError

LLQOption_cmp(self, other) ==
    IF {"version", "opcode", "errorcode", "queryid", "leaselife"}
           \subseteq DOMAIN other
    THEN Compared(CmpTuple(<<CmpInt(self.otype, other.otype),
                             CmpNum(self.version, other.version),
                             CmpNum(self.opcode, other.opcode),
                             CmpNum(self.errorcode, other.errorcode),
                             CmpNum(self.queryid, other.queryid),
                             CmpNum(self.leaselife, other.leaselife)>>))
    ELSE AttributeError

ULOption_cmp(self, other) ==
    IF {"leaselength", "ulid"} \subseteq DOMAIN other
    THEN Compared(CmpTuple(<<CmpNum(self.leaselength, other.leaselength),
                             CmpNum(self.ulid, other.ulid)>>))
    ELSE AttributeError

\* self._cmp(other), by the class of self
_cmp(self, other) ==
    CASE self.cls = "GenericOption" -> GenericOption_cmp(self, other)
      [] self.cls = "LLQOption" -> LLQOption_cmp(self, other)
      [] self.cls = "ULOption" -> ULOption_cmp(self, other)

Option__eq__(self, other) ==
    IF ~isinstance_Option(other) THEN Returned("False")
    ELSE IF self.otype # other.otype THEN Returned("False")
    ELSE LET r == _cmp(self, other) IN OfCmp(r, Bool(r.val = 0))

Option__ne__(self, other) ==
    IF ~isinstance_Option(other) THEN Returned("False")
    ELSE IF self.otype # other.otype THEN Returned("False")
    ELSE LET r == _cmp(self, other) IN OfCmp(r, Bool(r.val # 0))

Option__lt__unguarded(self, other) ==
    IF ~isinstance_Option(other) THEN Returned("NotImplemented")
    ELSE LET r == _cmp(self, other) IN OfCmp(r, Bool(r.val < 0))

Option__lt__(self, other) ==
    IF ~isinstance_Option(other) \/ self.otype # other.otype
    THEN Returned("NotImplemented")
    ELSE LET r == _cmp(self, other) IN OfCmp(r, Bool(r.val < 0))

Option__le__(self, other) ==
    IF ~isinstance_Option(other) \/ self.otype # other.otype
    THEN Returned("NotImplemented")
    ELSE LET r == _cmp(self, other) IN OfCmp(r, Bool(r.val <= 0))

Option__ge__(self, other) ==
    IF ~isinstance_Option(other) \/ self.otype # other.otype
    THEN Returned("NotImplemented")
    ELSE LET r == _cmp(self, other) IN OfCmp(r, Bool(r.val >= 0))

Option__gt__(self, other) ==
    IF ~isinstance_Option(other) \/ self.otype # other.otype
    THEN Returned("NotImplemented")
    ELSE LET r == _cmp(self, other) IN OfCmp(r, Bool(r.val > 0))

-----------------------------------------------------------------------------
(* class GenericOption *)

GenericOption__init__(otype, data) ==
    [cls |-> "GenericOption", otype |-> otype, data |-> data]

GenericOption_to_wire(self) == [exc |-> "none", bytes |-> self.data]

GenericOption_from_wire(otype, w, current, olen) ==
    [exc |-> "none",
     val |-> GenericOption__init__(otype, PySlice(w, current, current + olen))]

-----------------------------------------------------------------------------
(* class LLQOption *)

LLQOption__init__(version, opcode, errorcode, queryid, leaselife) ==
    [cls |-> "LLQOption", otype |-> LLQ, version |-> version,
     opcode |-> opcode, errorcode |-> errorcode, queryid |-> queryid,
     leaselife |-> leaselife]

LLQOption_to_wire(self) ==
    StructPack(FmtLLQ, <<self.version, self.opcode, self.errorcode,
                         self.queryid, self.leaselife>>)

LLQOption_from_wire_opcode_first(otype, w, current, olen) ==
    LET u == StructUnpack(FmtLLQ, PySlice(w, current, current + olen))
    IN IF u.exc # "none" THEN [exc |-> u.exc]
       ELSE [exc |-> "none",
             val |-> LLQOption__init__(u.vals[2], u.vals[1], u.vals[3],
                                       u.vals[4], u.vals[5])]

LLQOption_from_wire(otype, w, current, olen) ==
    LET u == StructUnpack(FmtLLQ, PySlice(w, current, current + olen))
    IN IF u.exc # "none" THEN [exc |-> u.exc]
       ELSE [exc |-> "none",
             val |-> LLQOption__init__(u.vals[1], u.vals[2], u.vals[3],
                                       u.vals[4], u.vals[5])]

-----------------------------------------------------------------------------
(* class ULOption *)

ULOption__init__(leaselength, ulid) ==
    [cls |-> "ULOption", otype |-> UL, leaselength |-> leaselength,
     ulid |-> ulid]

ULOption_to_wire(self) == StructPack(FmtUL, <<self.ulid, self.leaselength>>)

ULOption_from_wire_in_wire_order(otype, w, current, olen) ==
    LET u == StructUnpack(FmtUL, PySlice(w, current, current + olen))
    IN IF u.exc # "none" THEN [exc |-> u.exc]
       ELSE [exc |-> "none", val |-> ULOption__init__(u.vals[1], u.vals[2])]

ULOption_from_wire(otype, w, current, olen) ==
    LET u == StructUnpack(FmtUL, PySlice(w, current, current + olen))
    IN IF u.exc # "none" THEN [exc |-> u.exc]
       ELSE [exc |-> "none", val |-> ULOption__init__(u.vals[2], u.vals[1])]

-----------------------------------------------------------------------------
(* the registry and the dispatch *)

\* self.to_wire(file), by the class of self: the bytes handed to file.write
to_wire(self) ==
    CASE self.cls = "GenericOption" -> GenericOption_to_wire(self)
      [] self.cls = "LLQOption" -> LLQOption_to_wire(self)
      [] self.cls = "ULOption" -> ULOption_to_wire(self)

\* cls.from_wire(otype, wire, current, olen)
from_wire(cls, otype, w, current, olen) ==
    CASE cls = "GenericOption" -> GenericOption_from_wire(otype, w, current, olen)
      [] cls = "LLQOption" -> LLQOption_from_wire(otype, w, current, olen)
      [] cls = "ULOption" -> ULOption_from_wire(otype, w, current, olen)

_type_to_class == (LLQ :> "LLQOption") @@ (UL :> "ULOption")

get_option_class_no_lookup(otype) == "GenericOption"

get_option_class(otype) ==
    IF otype \in DOMAIN _type_to_class THEN _type_to_class[otype]
    ELSE "GenericOption"

option_from_wire(otype, w, current, olen) ==
    from_wire(get_option_class(otype), otype, w, current, olen)

-----------------------------------------------------------------------------
(* The values the callers pass *)

Versions == {Num(1), <<1, 0>>}
Opcodes == {Num(LLQ_OPCODE_SETUP), Num(LLQ_OPCODE_EVENT)}
Errorcodes == {Num(LLQ_ERROR_NOERROR), Num(LLQ_ERROR_UNKNOWN)}
QueryIds == {Num(7), Max64}
LeaseLives == {Num(3600), Max32}
LeaseLengths == {Num(3600), Max32, <<1, 0, 0>>}
UlIds == {Num(42), Max64}

OTypes == {LLQ, UL, NSID}

DataBytes == {0, 120}
Payloads == UNION {[1..n -> DataBytes] : n \in 0..MaxData}

\* what the file holds before to_wire writes to it
Files == {<<>>, <<255>>}

Currents == 0..MaxCurrent

\* the lengths of the payloads, the fixed widths and their neighbours, and
\* the largest length
Olens == (0..MaxData)
         \cup {w + d : w \in {CalcSize(FmtUL), CalcSize(FmtLLQ)}, d \in {-1, 0, 1}}
         \cup {MaxOlen}

Headers == [otype : OTypes, current : Currents, olen : Olens]

NoMark == [written |-> FALSE, start |-> 0, n |-> 0]
NoCall == [op |-> "none"]

-----------------------------------------------------------------------------
(* Encoding and decoding *)

\* the module is imported: the def of LLQOption.__init__ evaluates its
\* default arguments, one call of dns.entropy.between
Import ==
    /\ defaultQueryId \in QueryIds
    /\ entropyDraws = 1

Init ==
    /\ Import
    /\ instances = 0
    /\ opt = None
    /\ hdr \in Headers
    /\ wire = <<>>
    /\ mark = NoMark
    /\ res = NoCall
    /\ x = None /\ y = None /\ z = None

\* the caller holds a new instance, to be written to a new message
Constructed(o, defaulted) ==
    /\ instances < MaxInstances
    /\ instances' = instances + 1
    /\ opt' = o
    /\ wire' = <<>>
    /\ mark' = NoMark
    /\ res' = [op |-> "__init__", cls |-> o.cls, defaulted |-> defaulted]
    /\ UNCHANGED <<defaultQueryId, entropyDraws, hdr, x, y, z>>

\* LLQOption(version, opcode, errorcode[, queryid], leaselife)
NewLLQOption ==
    \E version \in Versions, opcode \in Opcodes, errorcode \in Errorcodes,
       omitted \in BOOLEAN, queryid \in QueryIds, leaselife \in LeaseLives :
        Constructed(LLQOption__init__(version, opcode, errorcode,
                        IF omitted THEN defaultQueryId ELSE queryid,
                        leaselife),
                    omitted)

\* ULOption(leaselength, ulid)
NewULOption ==
    \E leaselength \in LeaseLengths, ulid \in UlIds :
        Constructed(ULOption__init__(leaselength, ulid), FALSE)

\* GenericOption(otype, data)
NewGenericOption ==
    \E otype \in OTypes, data \in Payloads :
        Constructed(GenericOption__init__(otype, data), FALSE)

\* opt.to_wire(file), file holding f
ToWire ==
    /\ opt # None
    /\ \E f \in Files :
        LET r == to_wire(opt) IN
        IF r.exc = "none"
        THEN /\ wire' = f \o r.bytes
             /\ mark' = [written |-> TRUE, start |-> Len(f), n |-> Len(r.bytes)]
             /\ res' = [op |-> "to_wire", exc |-> "none"]
        ELSE /\ wire' = f
             /\ mark' = NoMark
             /\ res' = [op |-> "to_wire", exc |-> r.exc]
    /\ UNCHANGED <<defaultQueryId, entropyDraws, instances, opt, hdr, x, y, z>>

\* cls.from_wire(otype, wire, current, olen)
FromWire ==
    /\ \E cls \in OptionClasses :
        res' = [op |-> "from_wire", cls |-> cls]
               @@ from_wire(cls, hdr.otype, wire, hdr.current, hdr.olen)
    /\ UNCHANGED <<defaultQueryId, entropyDraws, instances, opt, hdr, wire,
                   mark, x, y, z>>

\* option_from_wire(otype, wire, current, olen)
OptionFromWire ==
    /\ res' = [op |-> "option_from_wire"]
              @@ option_from_wire(hdr.otype, wire, hdr.current, hdr.olen)
    /\ UNCHANGED <<defaultQueryId, entropyDraws, instances, opt, hdr, wire,
                   mark, x, y, z>>

Next ==
    \/ NewLLQOption
    \/ NewULOption
    \/ NewGenericOption
    \/ ToWire
    \/ FromWire
    \/ OptionFromWire

Spec == Init /\ [][Next]_vars

-----------------------------------------------------------------------------
(* Comparing *)

CmpLLQOptions ==
    {LLQOption__init__(version, opcode, Num(LLQ_ERROR_NOERROR), queryid, leaselife) :
        version \in {Num(1), Num(2)}, opcode \in Opcodes,
        queryid \in QueryIds, leaselife \in {Num(0), Max32}}

CmpULOptions ==
    {ULOption__init__(leaselength, ulid) :
        leaselength \in {Num(0), Num(3600)}, ulid \in UlIds}

CmpGenericOptions ==
    {GenericOption__init__(otype, data) :
        otype \in OTypes, data \in {<<>>, <<120>>, <<120, 0>>}}

CmpOptions == CmpLLQOptions \cup CmpULOptions \cup CmpGenericOptions

\* three instances the caller holds, or something that is not an Option
InitCmp ==
    /\ Import
    /\ instances = 0
    /\ opt = None
    /\ hdr = [otype |-> NSID, current |-> 0, olen |-> 0]
    /\ wire = <<>>
    /\ mark = NoMark
    /\ res = NoCall
    /\ x \in CmpOptions
    /\ y \in CmpOptions \cup {NotAnOption}
    /\ z \in {o \in CmpLLQOptions : o.leaselife = Num(0)}

\* the operands of a comparison, left and right
Pairs == {<<x, y>>} \cup (IF isinstance_Option(y) THEN {<<y, x>>} ELSE {})

Called(op, self, other, r) ==
    /\ res' = [op |-> op, self |-> self, other |-> other] @@ r
    /\ UNCHANGED <<defaultQueryId, entropyDraws, instances, opt, hdr, wire,
                   mark, x, y, z>>

Eq == \E p \in Pairs : Called("__eq__", p[1], p[2], Option__eq__(p[1], p[2]))
Ne == \E p \in Pairs : Called("__ne__", p[1], p[2], Option__ne__(p[1], p[2]))
Lt == \E p \in Pairs : Called("__lt__", p[1], p[2], Option__lt__(p[1], p[2]))
Le == \E p \in Pairs : Called("__le__", p[1], p[2], Option__le__(p[1], p[2]))
Ge == \E p \in Pairs : Called("__ge__", p[1], p[2], Option__ge__(p[1], p[2]))
Gt == \E p \in Pairs : Called("__gt__", p[1], p[2], Option__gt__(p[1], p[2]))

NextCmp == Eq \/ Ne \/ Lt \/ Le \/ Ge \/ Gt

SpecCmp == InitCmp /\ [][NextCmp]_vars

-----------------------------------------------------------------------------
(* Properties of encoding and decoding, checked under Spec *)

OrderingOps == {"__lt__", "__le__", "__ge__", "__gt__"}
ComparisonOps == {"__eq__", "__ne__"} \cup OrderingOps

\* the bytes the last to_wire wrote
Written == SubSeq(wire, mark.start + 1, mark.start + mark.n)

\* the last call decoded, with the class of opt and the type code of opt,
\* exactly the bytes that opt.to_wire wrote
DecodedOwnBytes ==
    /\ res.op = "from_wire"
    /\ mark.written
    /\ res.cls = opt.cls
    /\ hdr.otype = opt.otype
    /\ hdr.current = mark.start
    /\ hdr.olen = mark.n

\* C1: decoding the bytes that to_wire wrote for an option whose fields fit,
\* with the from_wire of the same class, gives an option that == the original.
C1_RoundTrip ==
    DecodedOwnBytes =>
        /\ res.exc = "none"
        /\ Option__eq__(res.val, opt).ret = "True"
        /\ Option__eq__(opt, res.val).ret = "True"

C1_Witness ==
    /\ DecodedOwnBytes
    /\ mark.start = 0
    /\ opt.cls = "LLQOption"
    /\ opt.queryid = Max64
    /\ opt.opcode = Num(LLQ_OPCODE_EVENT)
    /\ res.exc = "none"

\* C2: LLQOption.from_wire with a length other than 18 and ULOption.from_wire
\* with a length other than 12 always fail, whatever the buffer and offset.
C2_FixedWidthRejection ==
    (/\ res.op = "from_wire"
     /\ \/ res.cls = "LLQOption" /\ hdr.olen # CalcSize(FmtLLQ)
        \/ res.cls = "ULOption" /\ hdr.olen # CalcSize(FmtUL))
    => res.exc # "none"

\* C3: a decode whose window runs past the end of the buffer fails, and a
\* GenericOption that is decoded has a payload of exactly olen bytes.
C3_BoundsChecked ==
    res.op = "from_wire" =>
        /\ hdr.current + hdr.olen > Len(wire) => res.exc # "none"
        /\ (res.exc = "none" /\ res.cls = "GenericOption")
               => Len(res.val.data) = hdr.olen

\* C6: an LLQOption constructed without a queryid draws it from the entropy
\* source at that construction, one draw for each such construction.
C6_DrawAtConstruction ==
    [][(res'.op = "__init__" /\ res'.defaulted)
           => entropyDraws' = entropyDraws + 1]_vars

\* C7: option_from_wire has a decoder for every type code, and what it
\* returns carries the type code that was passed: an LLQOption for LLQ, a
\* ULOption for UL, a GenericOption for any other code.
C7_DispatchKeepsType ==
    res.op = "option_from_wire" =>
        /\ res.exc \in {"none", "struct.error"}
        /\ res.exc = "none" =>
              /\ res.val.otype = hdr.otype
              /\ res.val.cls = (IF hdr.otype = LLQ THEN "LLQOption"
                                ELSE IF hdr.otype = UL THEN "ULOption"
                                ELSE "GenericOption")

C7_Witness ==
    /\ res.op = "option_from_wire"
    /\ hdr.otype = LLQ
    /\ res.exc = "none"
    /\ res.val.queryid = Max64

\* C9: ULOption.to_wire writes 12 bytes, update_lease_id big-endian in the
\* first 8 and lease_length big-endian in the last 4 (3600 and 42 give
\* 00000000 0000002A 00000E10), and from_wire of these 12 bytes gives back
\* the lease_length and the update_lease_id, not swapped.
C9_ULWireLayout ==
    (opt.cls = "ULOption" /\ mark.written) =>
        /\ mark.n = 12
        /\ SubSeq(Written, 1, 8) = PackNum(opt.ulid, 8)
        /\ SubSeq(Written, 9, 12) = PackNum(opt.leaselength, 4)
        /\ (opt.leaselength = Num(3600) /\ opt.ulid = Num(42))
               => Written = <<0, 0, 0, 0, 0, 0, 0, 42, 0, 0, 14, 16>>
        /\ DecodedOwnBytes =>
              /\ res.exc = "none"
              /\ res.val.leaselength = opt.leaselength
              /\ res.val.ulid = opt.ulid

C9_Witness ==
    /\ DecodedOwnBytes
    /\ opt = ULOption__init__(Num(3600), Num(42))
    /\ res.exc = "none"
    /\ res.val.leaselength = Num(3600)

-----------------------------------------------------------------------------
(* Properties of the comparison methods, checked under SpecCmp *)

SameType == isinstance_Option(res.other) /\ res.self.otype = res.other.otype

\* C4: for two options of different option_type, != is true and == is false.
C4_CrossTypeInequality ==
    (res.op \in {"__eq__", "__ne__"} /\ isinstance_Option(res.other)
         /\ res.self.otype # res.other.otype)
    => /\ res.op = "__eq__" => res.ret = "False"
       /\ res.op = "__ne__" => res.ret = "True"

\* C5: when the other operand is not an Option or has another option_type,
\* <, <=, >= and > hand back NotImplemented and do not call _cmp.
C5_CrossTypeNotOrderable ==
    (res.op \in OrderingOps /\ ~SameType)
    => res.ret = "NotImplemented" /\ ~res.cmpCalled

C5_Witness ==
    /\ res.op = "__lt__"
    /\ res.self.cls = "GenericOption"
    /\ res.other.cls = "LLQOption"
    /\ res.self.otype # res.other.otype
    /\ res.ret = "NotImplemented"

LT(a, b) == Option__lt__(a, b).ret = "True"
GT(a, b) == Option__gt__(a, b).ret = "True"
EQ(a, b) == Option__eq__(a, b).ret = "True"

LLQFields == <<"version", "opcode", "errorcode", "queryid", "leaselife">>

\* a is before b in the order of the first field, in LLQFields, they differ in
LexLess(a, b) ==
    \E i \in 1..Len(LLQFields) :
        /\ \A j \in 1..(i - 1) : a[LLQFields[j]] = b[LLQFields[j]]
        /\ CmpNum(a[LLQFields[i]], b[LLQFields[i]]) < 0

\* C8: on LLQOptions, < is the lexicographic order of (option_type, version,
\* opcode, error_code, query_id, lease_life): it is transitive and
\* antisymmetric, exactly one of <, ==, > holds, and a smaller version makes
\* an option smaller whatever its other fields.
C8_LLQOrdering ==
    (x.cls = "LLQOption" /\ y.cls = "LLQOption") =>
        /\ (LT(x, y) /\ LT(y, z)) => LT(x, z)
        /\ ~(LT(x, y) /\ LT(y, x))
        /\ LT(x, y) <=> LexLess(x, y)
        /\ Cardinality({r \in {"lt", "eq", "gt"} :
                            \/ r = "lt" /\ LT(x, y)
                            \/ r = "eq" /\ EQ(x, y)
                            \/ r = "gt" /\ GT(x, y)}) = 1
        /\ CmpNum(x.version, y.version) < 0 => LT(x, y)
        /\ (res.op = "__lt__" /\ res.self = x /\ res.other = y)
               => res.ret = Bool(LexLess(x, y))

C8_Witness ==
    /\ x.cls = "LLQOption" /\ y.cls = "LLQOption"
    /\ res.op = "__lt__" /\ res.self = x /\ res.other = y
    /\ res.ret = "True"
    /\ CmpNum(x.version, y.version) < 0
    /\ CmpNum(x.queryid, y.queryid) > 0
    /\ LT(y, z)

\* C10: for two options of the same option_type every comparison returns a
\* boolean and raises nothing, also when they are of different classes.
C10_SameTypeComparable ==
    (res.op \in ComparisonOps /\ SameType) => res.ret \in {"True", "False"}

====
